---- MODULE Spec2Model ----
(***************************************************************************)
(* Model of the company-intel-agent backend: the pipeline orchestrator     *)
(* (backend/orchestrator.py, run_pipeline), the router agent               *)
(* (backend/agents/router.py, verify_company and route) and the JSON       *)
(* extraction helper (backend/tools/llm.py, parse_json_response).          *)
(*                                                                         *)
(* Python strings are sequences of tokens (<<>> is the empty string), an   *)
(* Optional[str] is a record [some, val], a dict is a record with a field  *)
(* "has" naming the keys that are present.  The hosted search and LLM      *)
(* services are the environment: every call draws its outcome (a value or  *)
(* an exception) from a small set.                                         *)
(***************************************************************************)
EXTENDS Integers, Sequences, FiniteSets, TLC

(***************************************************************************)
(* Bounds of the model.                                                    *)
(***************************************************************************)
\* longest search_queries list the router LLM answers with
MaxQueries == 3
\* most results one pipeline search returns
MaxResults == 2

\* max_results argument the orchestrator passes to search()
SEARCH_MAX_RESULTS == 3
\* number of planned queries the orchestrator executes: search_queries[:2]
QUERY_SLICE == 2
\* number of similar companies the orchestrator lists: similar_companies[:3]
SIMILAR_SLICE == 3

(***************************************************************************)
(* Python values.                                                          *)
(***************************************************************************)
None == [some |-> FALSE, val |-> <<>>]
Some(s) == [some |-> TRUE, val |-> s]
\* a test for "is not None" where truthiness is meant
TruthyNotNone(o) == o.some

\* truthiness of an Optional[str]: None and "" are falsy
Truthy(o) == o.some /\ o.val # <<>>

\* s[:n]
Take(s, n) == SubSeq(s, 1, IF Len(s) < n THEN Len(s) ELSE n)

RECURSIVE Flatten(_)
\* concatenation of a sequence of sequences
Flatten(ss) == IF ss = <<>> THEN <<>> ELSE Head(ss) \o Flatten(Tail(ss))

RECURSIVE SumSeq(_)
SumSeq(ns) == IF ns = <<>> THEN 0 ELSE Head(ns) + SumSeq(Tail(ns))

(***************************************************************************)
(* backend/models.py                                                       *)
(***************************************************************************)
COMPETITOR == "competitor_analysis"
FOUNDER == "founder_lookup"
BUSINESS == "business_overview"
UNKNOWN == "unknown"
\* the values of the enum IntentType
IntentType == {COMPETITOR, FOUNDER, BUSINESS, UNKNOWN}

(***************************************************************************)
(* backend/tools/llm.py: parse_json_response.  A response text is a        *)
(* sequence of tokens; the token JSONTOK stands for the serialisation of   *)
(* the JSON value the response carries.                                    *)
(***************************************************************************)
\* the three-backquote code fence
FENCE == "<fence>"
NL == "\n"
SP == " "
JSONTOK == "<json>"
IsSpace(t) == t \in {NL, SP}

RECURSIVE LStrip(_)
LStrip(t) == IF t # <<>> /\ IsSpace(Head(t)) THEN LStrip(Tail(t)) ELSE t
RECURSIVE RStrip(_)
RStrip(t) == IF t # <<>> /\ IsSpace(t[Len(t)]) THEN RStrip(SubSeq(t, 1, Len(t) - 1)) ELSE t
\* str.strip()
Strip(t) == RStrip(LStrip(t))

RECURSIVE AfterFirstNL(_)
\* text.split("\n", 1)[1], for a text that holds a newline
AfterFirstNL(t) == IF Head(t) = NL THEN Tail(t) ELSE AfterFirstNL(Tail(t))

StartsWithFence(t) == t # <<>> /\ Head(t) = FENCE
EndsWithFence(t) == t # <<>> /\ t[Len(t)] = FENCE
HasNL(t) == \E i \in 1..Len(t) : t[i] = NL

\* the text handed to json.loads
StripFences(text) ==
    LET t1 == Strip(text)
        t2 == IF StartsWithFence(t1)
              THEN (IF HasNL(t1) THEN AfterFirstNL(t1) ELSE Tail(t1))
              ELSE t1
        t3 == IF EndsWithFence(t2) THEN SubSeq(t2, 1, Len(t2) - 1) ELSE t2
    IN Strip(t3)

\* json.loads succeeds on exactly one JSON value
JsonLoadsOk(t) == t = <<JSONTOK>>

\* parse_json_response(raw): raises unless the stripped text is one JSON value
parse_json_response(raw) ==
    LET t == StripFences(raw.text)
    IN [raised |-> ~JsonLoadsOk(t), data |-> raw.data]

(***************************************************************************)
(* The environment: what the search service and the LLM answer.            *)
(***************************************************************************)
company == <<"Acme">>
query == <<"who", "founded", "it">>

\* search results as backend/tools/search.py returns them: {title, url, content}
\* (the three fields are strings, as the search service documents them)
R1 == [title |-> <<"Acme", "Inc">>, url |-> <<"acme.com">>, content |-> <<"rockets">>]
R2 == [title |-> <<"Acme", "Ltd">>, url |-> <<"acme.co.uk">>, content |-> <<"anvils">>]
ResultPool == {R1, R2}

RECURSIVE SeqsUpTo(_, _)
\* the sequences over S of length at most n
SeqsUpTo(S, n) ==
    IF n = 0 THEN {<<>>}
    ELSE LET shorter == SeqsUpTo(S, n - 1)
         IN shorter \cup {Append(s, x) : s \in {t \in shorter : Len(t) = n - 1}, x \in S}

\* outcome of one call of search(): an exception, or a list of results
SearchRaise == [raises |-> TRUE, results |-> <<>>]
SearchOutcomes ==
    {SearchRaise} \cup {[raises |-> FALSE, results |-> rs] : rs \in SeqsUpTo(ResultPool, MaxResults)}
\* the two searches inside verify_company
VerifySearchOutcomes ==
    {SearchRaise} \cup {[raises |-> FALSE, results |-> rs] : rs \in {<<>>, <<R1>>}}

\* texts the synthesis LLM answers with
Answers == {<<"Acme", "was", "founded", "by", "Wile">>, <<>>}

\* response texts of the LLM around the JSON value
RawTexts ==
    { <<JSONTOK>>,
      <<SP, JSONTOK, NL>>,
      <<FENCE, "json", NL, JSONTOK, NL, FENCE>>,
      <<FENCE, NL, JSONTOK, NL, FENCE, NL>>,
      <<FENCE, JSONTOK, FENCE>>,
      <<JSONTOK, FENCE>>,
      <<FENCE, JSONTOK, NL, FENCE>>,
      <<FENCE, "json", JSONTOK, FENCE>>,
      <<"Sure", JSONTOK>>,
      <<FENCE>>,
      <<>> }

\* the k-th query the router LLM suggests
Q(k) == <<"Acme", "founder", ToString(k)>>
\* the search_queries lists it answers with: Q(1), ..., Q(n)
QueryLists == {[k \in 1..n |-> Q(k)] : n \in 0..MaxQueries}

\* JSON objects the router LLM answers with
RouterKeys == {"intent", "reasoning", "search_queries"}
RouterData ==
    [has : SUBSET RouterKeys,
     intent : IntentType \cup {"pricing"},
     reasoning : {<<"because">>},
     search_queries : QueryLists]
\* a dict is stored with the fields of its absent keys blanked
NormRouter(d) ==
    [has |-> d.has,
     intent |-> IF "intent" \in d.has THEN d.intent ELSE "",
     reasoning |-> IF "reasoning" \in d.has THEN d.reasoning ELSE <<>>,
     search_queries |-> IF "search_queries" \in d.has THEN d.search_queries ELSE <<>>]
RouterDicts == {NormRouter(d) : d \in RouterData}

\* outcome of chat(): an exception, or the response text with its JSON value
ChatOutcomes(dicts) ==
    {[raises |-> FALSE, text |-> t, data |-> d] : t \in RawTexts, d \in dicts}
    \cup {[raises |-> TRUE, text |-> <<>>, data |-> CHOOSE d \in dicts : TRUE]}

\* JSON objects the verification LLM answers with
TargetKeys == {"description", "industry", "distinguishing_info"}
Target(keys) ==
    [has |-> keys,
     description |-> IF "description" \in keys THEN <<"makes", "rockets">> ELSE <<>>,
     industry |-> IF "industry" \in keys THEN <<"aerospace">> ELSE <<>>,
     distinguishing_info |-> IF "distinguishing_info" \in keys THEN <<"based", "in", "Ohio">> ELSE <<>>]
TargetPool == {Target({}), Target({"industry"}), Target(TargetKeys)}

Similar(keys, n) ==
    [has |-> keys,
     name |-> IF "name" \in keys THEN <<"Acme", n>> ELSE <<>>,
     description |-> IF "description" \in keys THEN <<"sells", n>> ELSE <<>>]
SimilarPool ==
    { <<>>,
      <<Similar({"name", "description"}, "a"), Similar({"description"}, "x"),
        Similar({"name", "description"}, "b"), Similar({"name"}, "c"),
        Similar({"name", "description"}, "d")>> }

VerifyKeys == {"target_company", "similar_companies", "confidence"}
VerifyData ==
    [has : SUBSET VerifyKeys,
     target_company : TargetPool,
     similar_companies : SimilarPool,
     confidence : {"high", "medium", "low"}]
NormVerify(d) ==
    [has |-> d.has,
     target_company |-> IF "target_company" \in d.has THEN d.target_company ELSE Target({}),
     similar_companies |-> IF "similar_companies" \in d.has THEN d.similar_companies ELSE <<>>,
     confidence |-> IF "confidence" \in d.has THEN d.confidence ELSE ""]
VerifyDicts == {NormVerify(d) : d \in VerifyData}

(***************************************************************************)
(* backend/agents/router.py                                                *)
(***************************************************************************)
NoException == "none"

\* CompanyVerification returned before anything is known
NoVerification ==
    [verified |-> FALSE, company_description |-> <<>>, similar_companies |-> <<>>,
     verification_method |-> <<>>]

RECURSIVE SimilarNames(_)
\* [s.get("name", "") + ": " + s.get("description", "") for s in similar if s.get("name")]
SimilarNames(similar) ==
    IF similar = <<>> THEN <<>>
    ELSE LET s == Head(similar)
         IN (IF "name" \in s.has /\ s.name # <<>>
             THEN <<s.name \o <<":">> \o s.description>>
             ELSE <<>>) \o SimilarNames(Tail(similar))

\* the description verify_company assembles from data.get("target_company", {})
Description(target) ==
    target.description
    \o (IF target.industry # <<>> THEN <<"(Industry:">> \o target.industry \o <<")">> ELSE <<>>)
    \o (IF target.distinguishing_info # <<>> THEN <<"-">> \o target.distinguishing_info ELSE <<>>)

\* a check that takes only "high" for verified
VerifiedHighOnly(data) == "confidence" \in data.has /\ data.confidence = "high"

\* data.get("confidence") in ["high", "medium"]
Verified(data) == "confidence" \in data.has /\ data.confidence \in {"high", "medium"}

\* verify_company(company_name, website) with the outcomes s1, s2 of its two
\* searches and c of its LLM call.  exc is the exception raised (NoException
\* when it returns), searches and llm_calls count the calls it made.
verify_company(company_name, website, s1, s2, c) ==
    LET all_results == s1.results \o s2.results
        parsed == parse_json_response(c)
        data == parsed.data
        out(exc, ns, nl, v, rs) ==
            [exc |-> exc, searches |-> ns, llm_calls |-> nl, verification |-> v, results |-> rs]
    IN IF s1.raises THEN out("SearchError", 1, 0, NoVerification, <<>>)
       ELSE IF s2.raises THEN out("SearchError", 2, 0, NoVerification, <<>>)
       ELSE IF all_results = <<>>
       THEN out(NoException, 2, 0,
                [verified |-> FALSE,
                 company_description |-> <<"Could", "not", "verify">> \o company_name,
                 similar_companies |-> <<>>,
                 verification_method |-> <<"no", "search", "results">>],
                <<>>)
       ELSE IF c.raises THEN out("LLMError", 2, 1, NoVerification, <<>>)
       ELSE IF parsed.raised THEN out("JSONDecodeError", 2, 1, NoVerification, <<>>)
       ELSE out(NoException, 2, 1,
                [verified |-> Verified(data),
                 company_description |-> Description(data.target_company),
                 similar_companies |-> SimilarNames(data.similar_companies),
                 verification_method |-> <<"website", "verification", "via">> \o website],
                all_results)

\* RouterResult returned when route raises
NoRouterResult ==
    [intent |-> "", reasoning |-> <<>>, search_queries |-> <<>>, company_context |-> None]

\* a route that takes the LLM's intent string as it comes
IsIntentTypeAny(value) == TRUE

\* IntentType(value): the enum member with that value, ValueError otherwise
IsIntentType(value) == value \in IntentType

\* a route that reads the reasoning with data.get("reasoning", "")
routeDefaultsReasoning(company_name, website, user_query, company_context, c) ==
    LET parsed == parse_json_response(c)
        data == parsed.data
        out(exc, r) == [exc |-> exc, result |-> r]
    IN IF c.raises THEN out("LLMError", NoRouterResult)
       ELSE IF parsed.raised THEN out("JSONDecodeError", NoRouterResult)
       ELSE IF "intent" \notin data.has THEN out("KeyError", NoRouterResult)
       ELSE IF ~IsIntentType(data.intent) THEN out("ValueError", NoRouterResult)
       ELSE out(NoException,
                [intent |-> data.intent,
                 reasoning |-> data.reasoning,
                 search_queries |-> IF "search_queries" \in data.has
                                    THEN data.search_queries
                                    ELSE <<company_name \o user_query>>,
                 company_context |-> company_context])

\* route(company_name, website, user_query, company_context) with the outcome
\* c of its LLM call
route(company_name, website, user_query, company_context, c) ==
    LET parsed == parse_json_response(c)
        data == parsed.data
        out(exc, r) == [exc |-> exc, result |-> r]
    IN IF c.raises THEN out("LLMError", NoRouterResult)
       ELSE IF parsed.raised THEN out("JSONDecodeError", NoRouterResult)
       ELSE IF "intent" \notin data.has THEN out("KeyError", NoRouterResult)
       ELSE IF ~IsIntentType(data.intent) THEN out("ValueError", NoRouterResult)
       ELSE IF "reasoning" \notin data.has THEN out("KeyError", NoRouterResult)
       ELSE out(NoException,
                [intent |-> data.intent,
                 reasoning |-> data.reasoning,
                 search_queries |-> IF "search_queries" \in data.has
                                    THEN data.search_queries
                                    ELSE <<company_name \o user_query>>,
                 company_context |-> company_context])

(***************************************************************************)
(* backend/agents/{competitor,founder,business}.py: synthesize formats the *)
(* results into a prompt and returns the text of one LLM call.             *)
(***************************************************************************)
SynthesizeFns == {"competitor.synthesize", "founder.synthesize", "business.synthesize"}
synthesize(company_name, search_results, company_context, c) ==
    IF c.raises THEN [exc |-> "LLMError", answer |-> <<>>]
    ELSE [exc |-> NoException, answer |-> c.text]

(***************************************************************************)
(* backend/orchestrator.py: run_pipeline                                   *)
(***************************************************************************)
VARIABLES
    website,            \* request.website
    pc,                 \* where run_pipeline is: start, or the call it awaits, or done
    company_context,
    verification,       \* the CompanyVerification of Step 0
    verify_results,     \* the search results verify_company returned with it
    chat_calls,         \* how many times chat() of backend/tools/llm.py was called
    events,             \* the events yielded so far
    calls,              \* the blocking calls started with asyncio.to_thread, in order
    inflight,           \* the calls (indices of calls) that have not come back
    response,           \* outcome of the call in flight, once the service answered
    raised,             \* the exception caught by the except clause, if any
    result,             \* the RouterResult
    agent_name,
    synthesize_fn,
    i,                  \* loop index of the search loop
    search_returns,     \* the result lists the searches returned, in order
    all_search_results

vars == <<website, pc, company_context, verification, verify_results, chat_calls, events, calls, inflight, response, raised,
          result, agent_name, synthesize_fn, i, search_returns, all_search_results>>

Websites == {None, Some(<<>>), Some(<<"acme.com">>)}

make_event(agent, event, content) == [agent |-> agent, event |-> event, content |-> content]

NoResponse == [kind |-> "none"]

Call(fn, q, n, ctx, rs) ==
    [fn |-> fn, query |-> q, max_results |-> n, company_context |-> ctx, search_results |-> rs]

\* an except clause that reports the failure and then completes the stream
ExceptEventsThenDone(exc) ==
    << make_event("System", "error", <<"Error:", exc>>),
       make_event("System", "done", <<"Analysis complete!">>) >>

\* an except clause that yields the message only
ExceptEventsMessageOnly(exc) ==
    << make_event("System", "error", <<"Error:", exc>>) >>

\* the two events of the except clause
ExceptEvents(exc) ==
    << make_event("System", "error", <<"Error:", exc>>),
       make_event("System", "error", <<"Traceback", exc>>) >>

\* intent_labels.get(result.intent, "Unknown")
IntentLabel(intent) ==
    CASE intent = COMPETITOR -> "Competitor Analysis"
      [] intent = FOUNDER -> "Founder Lookup"
      [] intent = BUSINESS -> "Business Overview"
      [] OTHER -> "Unknown"

\* a dispatch table whose names and functions are paired off by one
DispatchMispaired(intent) ==
    CASE intent = COMPETITOR -> <<"Competitor Agent", "founder.synthesize">>
      [] intent = FOUNDER -> <<"Founder Agent", "business.synthesize">>
      [] intent = BUSINESS -> <<"Business Agent", "competitor.synthesize">>
      [] OTHER -> <<"Business Agent", "business.synthesize">>

\* synthesize_map.get(result.intent, ("Business Agent", business.synthesize))
Dispatch(intent) ==
    CASE intent = COMPETITOR -> <<"Competitor Agent", "competitor.synthesize">>
      [] intent = FOUNDER -> <<"Founder Agent", "founder.synthesize">>
      [] intent = BUSINESS -> <<"Business Agent", "business.synthesize">>
      [] OTHER -> <<"Business Agent", "business.synthesize">>

\* the search loop without its slice
PlannedAll(r) == r.search_queries

\* result.search_queries[:2]
Planned(r) == Take(r.search_queries, QUERY_SLICE)

Init ==
    /\ website \in Websites
    /\ pc = "start"
    /\ company_context = None
    /\ verification = NoVerification
    /\ verify_results = <<>>
    /\ chat_calls = 0
    /\ events = <<>>
    /\ calls = <<>>
    /\ inflight = {}
    /\ response = NoResponse
    /\ raised = NoException
    /\ result = NoRouterResult
    /\ agent_name = ""
    /\ synthesize_fn = ""
    /\ i = 0
    /\ search_returns = <<>>
    /\ all_search_results = <<>>

\* a call started without being awaited stays in flight
ReturnedNever == inflight

\* the calls still in flight once the awaited call, the last one started, is back
Returned == inflight \ {Len(calls)}

\* await asyncio.to_thread(fn, ...): the call starts and the coroutine waits for
\* it at `at`; `flying` are the calls in flight when it starts
StartCall(c, at, flying) ==
    /\ calls' = Append(calls, c)
    /\ inflight' = flying \cup {Len(calls) + 1}
    /\ response' = NoResponse
    /\ pc' = at

\* an except clause that reports the failure and goes on to the synthesis with
\* what has been collected
ExceptThenSynthesize(exc, nchat) ==
    /\ events' = events \o ExceptEvents(exc)
    /\ chat_calls' = chat_calls + nchat
    /\ raised' = exc
    /\ StartCall(Call("business.synthesize", <<>>, 0, company_context, all_search_results),
                 "synth", Returned)
    /\ UNCHANGED <<website, company_context, verification, verify_results, result,
                   agent_name, synthesize_fn, i, search_returns, all_search_results>>

\* the except clause: the awaited call raised exc after nchat calls of chat(),
\* two error events end the stream
Except(exc, nchat) ==
    /\ events' = events \o ExceptEvents(exc)
    /\ chat_calls' = chat_calls + nchat
    /\ raised' = exc
    /\ inflight' = Returned
    /\ response' = NoResponse
    /\ pc' = "done"
    /\ UNCHANGED <<website, company_context, verification, verify_results, calls, result,
                   agent_name, synthesize_fn, i, search_returns, all_search_results>>

\* Step 1 up to the call of router.route
RouteEvents ==
    << make_event("Router", "thinking", <<"Analyzing user intent">>) >>

\* the first two events of one round of the search loop
SearchEvents(k, q) ==
    << make_event("Tavily", "tool_call", <<"Search", ToString(k)>> \o q),
       make_event("Tavily", "thinking", <<"Sending request to Tavily API">>) >>

\* Steps 3 (after the loop) and 4 up to the call of synthesize_fn
SynthEvents(name, collected) ==
    << make_event(name, "tool_result", <<"Total:", ToString(Len(collected))>>),
       make_event(name, "thinking", <<"Synthesizing search results">>) >>

\* lengths of the previews the orchestrator prints
TITLE_PREVIEW == 60
CONTENT_PREVIEW == 100
CONTEXT_PREVIEW == 100

\* Step 0 up to the call of router.verify_company
VerifyEvents(site) ==
    << make_event("Router", "thinking", <<"Received request:">> \o company \o site \o query),
       make_event("Router", "tool_call", <<"Verifying company identity via website:">> \o site),
       make_event("Router", "tool_call", <<"Searching:", "site:">> \o site \o company),
       make_event("Router", "tool_call", <<"Searching:">> \o company \o <<"company">>) >>

\* the else branch of Step 0
NoWebsiteEvents ==
    << make_event("Router", "thinking", <<"Received request:">> \o company \o query),
       make_event("Router", "thinking", <<"Tip: Provide website URL">>) >>

RECURSIVE SimilarLines(_)
SimilarLines(names) ==
    IF names = <<>> THEN <<>>
    ELSE <<make_event("Router", "thinking", <<"*">> \o Head(names))>> \o SimilarLines(Tail(names))

\* the events that list verification.similar_companies[:3]
SimilarEvents(similar) ==
    IF similar = <<>> THEN <<>>
    ELSE <<make_event("Router", "thinking", <<"Found companies with similar names:">>)>>
         \o SimilarLines(Take(similar, SIMILAR_SLICE))

\* the events that show the verification result
VerdictEvents(site, v) ==
    IF v.verified
    THEN << make_event("Router", "decision", <<"Company verified via">> \o site),
            make_event("Router", "decision", <<"Target:">> \o v.company_description) >>
    ELSE << make_event("Router", "thinking", <<"Could not fully verify company">>) >>

\* a Step 0 that keeps the description of a verified company only
ContextAfterVerifiedOnly(v, ctx) ==
    IF v.verified THEN Some(v.company_description) ELSE ctx

\* company_context after Step 0
ContextAfter(v, ctx) ==
    IF v.verified THEN Some(v.company_description)
    ELSE IF v.company_description # <<>> THEN Some(v.company_description)
    ELSE ctx

\* Step 1 after the call of router.route, and Step 2
DispatchEvents(r, name, ctx) ==
    << make_event("Router", "thinking", <<"Reasoning:">> \o r.reasoning),
       make_event("Router", "decision", <<"Intent identified:", IntentLabel(r.intent)>>),
       make_event("Router", "decision", <<"Search queries planned:">> \o Flatten(r.search_queries)),
       make_event(name, "thinking", <<name, "activated!">>) >>
    \o (IF Truthy(ctx)
        THEN <<make_event(name, "thinking",
                          <<"Using verified company context:">> \o Take(ctx.val, CONTEXT_PREVIEW))>>
        ELSE <<>>)

RECURSIVE ResultEvents(_, _)
\* the three events per result of one search, from result number j on
ResultEvents(rs, j) ==
    IF rs = <<>> THEN <<>>
    ELSE << make_event("Tavily", "tool_result",
                       <<"Result", ToString(j)>> \o Take(Head(rs).title, TITLE_PREVIEW)),
            make_event("Tavily", "tool_result", Head(rs).url),
            make_event("Tavily", "tool_result", Take(Head(rs).content, CONTENT_PREVIEW)) >>
         \o ResultEvents(Tail(rs), j + 1)

\* the events after one search came back
FoundEvents(rs) ==
    << make_event("Tavily", "tool_result",
                  <<"Tavily responded", "Found", ToString(Len(rs)), "results">>) >>
    \o ResultEvents(rs, 1)

\* a Step 5 that forgets the completion event
FinalEventsNoDone(name, answer) ==
    << make_event(name, "final_answer", answer) >>

\* a Step 5 that completes the stream before it yields the answer
FinalEventsDoneFirst(name, answer) ==
    << make_event("System", "done", <<"Analysis complete!">>),
       make_event(name, "final_answer", answer) >>

\* Step 5
FinalEvents(name, answer) ==
    << make_event(name, "final_answer", answer),
       make_event("System", "done", <<"Analysis complete!">>) >>

\* what the service behind the awaited call may answer
Responses(at) ==
    CASE at = "verify" ->
           [kind : {"verify"}, s1 : VerifySearchOutcomes, s2 : VerifySearchOutcomes,
            c : ChatOutcomes(VerifyDicts)]
      [] at = "route" -> [kind : {"route"}, c : ChatOutcomes(RouterDicts)]
      [] at = "search" -> [kind : {"search"}, s : SearchOutcomes]
      [] at = "synth" ->
           [kind : {"synth"},
            c : {[raises |-> FALSE, text |-> a] : a \in Answers}
                \cup {[raises |-> TRUE, text |-> <<>>]}]

\* run_pipeline starts: Step 0 up to its first blocking call
Begin ==
    /\ pc = "start"
    /\ IF Truthy(website)
       THEN /\ events' = events \o VerifyEvents(website.val)
            /\ StartCall(Call("verify_company", <<>>, 0, None, <<>>), "verify", inflight)
       ELSE /\ events' = events \o NoWebsiteEvents \o RouteEvents
            /\ StartCall(Call("route", <<>>, 0, company_context, <<>>), "route", inflight)
    /\ UNCHANGED <<website, company_context, verification, verify_results, chat_calls, raised,
                   result, agent_name, synthesize_fn, i, search_returns, all_search_results>>

\* the service behind the call in flight answers (or fails)
Respond ==
    /\ pc \in {"verify", "route", "search", "synth"}
    /\ response = NoResponse
    /\ response' \in Responses(pc)
    /\ UNCHANGED <<website, pc, company_context, verification, verify_results, chat_calls,
                   events, calls, inflight, raised, result, agent_name, synthesize_fn, i,
                   search_returns, all_search_results>>

\* router.verify_company comes back: rest of Step 0, Step 1 up to router.route
AwaitVerify ==
    /\ pc = "verify"
    /\ response.kind = "verify"
    /\ LET out == verify_company(company, website.val, response.s1, response.s2, response.c)
           v == out.verification
           ctx == ContextAfter(v, company_context)
       IN IF out.exc # NoException
          THEN Except(out.exc, out.llm_calls)
          ELSE /\ verification' = v
               /\ verify_results' = out.results
               /\ chat_calls' = chat_calls + out.llm_calls
               /\ events' = events
                     \o <<make_event("Router", "tool_result",
                                     <<"Found", ToString(Len(out.results)), "results for verification">>)>>
                     \o SimilarEvents(v.similar_companies)
                     \o VerdictEvents(website.val, v)
                     \o RouteEvents
               /\ company_context' = ctx
               /\ StartCall(Call("route", <<>>, 0, ctx, <<>>), "route", Returned)
               /\ UNCHANGED <<website, raised, result, agent_name, synthesize_fn, i,
                              search_returns, all_search_results>>

\* router.route comes back: rest of Step 1, Step 2, Step 3 up to the first search
\* (or, with nothing planned, Step 4 up to synthesize_fn)
AwaitRoute ==
    /\ pc = "route"
    /\ response.kind = "route"
    /\ LET out == route(company, website, query, company_context, response.c)
           r == out.result
           name == Dispatch(r.intent)[1]
           fn == Dispatch(r.intent)[2]
           planned == Planned(r)
       IN IF out.exc # NoException
          THEN Except(out.exc, 1)
          ELSE /\ result' = r
               /\ chat_calls' = chat_calls + 1
               /\ agent_name' = name
               /\ synthesize_fn' = fn
               /\ all_search_results' = <<>>
               /\ IF planned # <<>>
                  THEN /\ events' = events \o DispatchEvents(r, name, company_context)
                                    \o SearchEvents(1, planned[1])
                       /\ i' = 1
                       /\ StartCall(Call("search", planned[1], SEARCH_MAX_RESULTS, None, <<>>),
                                    "search", Returned)
                  ELSE /\ events' = events \o DispatchEvents(r, name, company_context)
                                    \o SynthEvents(name, <<>>)
                       /\ i' = 0
                       /\ StartCall(Call(fn, <<>>, 0, company_context, <<>>), "synth", Returned)
               /\ UNCHANGED <<website, company_context, verification, verify_results, raised,
                              search_returns>>

\* search number i comes back: rest of its round of the loop, then the next
\* round up to its search or Step 4 up to synthesize_fn
AwaitSearch ==
    /\ pc = "search"
    /\ response.kind = "search"
    /\ LET o == response.s
           planned == Planned(result)
           collected == all_search_results \o o.results
       IN IF o.raises
          THEN Except("SearchError", 0)
          ELSE /\ all_search_results' = collected
               /\ search_returns' = Append(search_returns, o.results)
               /\ IF i < Len(planned)
                  THEN /\ events' = events \o FoundEvents(o.results)
                                    \o SearchEvents(i + 1, planned[i + 1])
                       /\ i' = i + 1
                       /\ StartCall(Call("search", planned[i + 1], SEARCH_MAX_RESULTS, None, <<>>),
                                    "search", Returned)
                  ELSE /\ events' = events \o FoundEvents(o.results)
                                    \o SynthEvents(agent_name, collected)
                       /\ i' = i
                       /\ StartCall(Call(synthesize_fn, <<>>, 0, company_context, collected),
                                    "synth", Returned)
               /\ UNCHANGED <<website, company_context, verification, verify_results,
                              chat_calls, raised, result, agent_name, synthesize_fn>>

\* synthesize_fn comes back: Step 5
AwaitSynth ==
    /\ pc = "synth"
    /\ response.kind = "synth"
    /\ LET out == synthesize(company, all_search_results, company_context, response.c)
       IN IF out.exc # NoException
          THEN Except(out.exc, 1)
          ELSE /\ events' = events \o FinalEvents(agent_name, out.answer)
               /\ chat_calls' = chat_calls + 1
               /\ inflight' = Returned
               /\ response' = NoResponse
               /\ pc' = "done"
               /\ UNCHANGED <<website, company_context, verification, verify_results, calls,
                              raised, result, agent_name, synthesize_fn, i, search_returns,
                              all_search_results>>

Next == Begin \/ Respond \/ AwaitVerify \/ AwaitRoute \/ AwaitSearch \/ AwaitSynth

Spec == Init /\ [][Next]_vars

(***************************************************************************)
(* Properties                                                              *)
(***************************************************************************)
\* how many events of kind k the stream holds
CountKind(k) == Cardinality({j \in 1..Len(events) : events[j].event = k})
\* the kind of the last event of the stream ("" for the empty stream)
LastKind == IF events = <<>> THEN "" ELSE events[Len(events)].event
\* the calls of fn started so far
CallsOf(fns) == {j \in 1..Len(calls) : calls[j].fn \in fns}
\* run_pipeline has returned
Finished == pc = "done"

\* how far the run has come: the stage of the pipeline, the round of the
\* search loop, and whether the awaited call has been answered
StageOf(at) ==
    CASE at = "start" -> 0
      [] at = "verify" -> 1
      [] at = "route" -> 2
      [] at = "search" -> 3
      [] at = "synth" -> 4
      [] at = "done" -> 5
Rank == 10 * StageOf(pc) + 2 * i + (IF response = NoResponse THEN 0 ELSE 1)

\* the stream of a run in which nothing raised, no "error" in it; once
\* run_pipeline has returned its last event is the one "done" event
SuccessStream ==
    raised = NoException =>
        /\ CountKind("error") = 0
        /\ Finished =>
              /\ events # <<>>
              /\ events[Len(events)].agent = "System"
              /\ events[Len(events)].event = "done"
              /\ CountKind("done") = 1

\* C1: in a run where no external call raises the event stream is finite
\* (every step of the run takes it strictly further through the pipeline, the
\* search loop running at most two rounds), its last event is the completion
\* event of agent "System", that event occurs exactly once, and no event of
\* kind "error" occurs anywhere in it.
C1_SuccessEndsWithDone ==
    [][ /\ Rank' > Rank
        /\ i' <= 2
        /\ SuccessStream' ]_vars

\* a run with a website, two searches and a synthesis that all came back
C1_Witness ==
    /\ Finished
    /\ raised = NoException
    /\ Truthy(website)
    /\ Len(search_returns) = 2

\* C2: in a run where some external call raises, the last event has kind
\* "error" and the stream holds no "done" and no "final_answer" event.
C2_FailureEndsWithError ==
    raised # NoException =>
        /\ Finished
        /\ LastKind = "error"
        /\ CountKind("done") = 0
        /\ CountKind("final_answer") = 0

\* the synthesis call, the last of five calls, raised
C2_Witness ==
    /\ raised # NoException
    /\ Len(calls) = 5
    /\ calls[5].fn \in SynthesizeFns

\* C3 as stated: a failing run holds exactly one "error" event, the last one.
C3_SingleErrorEvent ==
    raised # NoException => (CountKind("error") = 1 /\ LastKind = "error")

\* C3, amended: a failing run holds exactly two "error" events (the message
\* and the traceback), and they are the last two events of the stream.
C3_TwoErrorEvents ==
    raised # NoException =>
        /\ CountKind("error") = 2
        /\ Len(events) >= 2
        /\ events[Len(events)].event = "error"
        /\ events[Len(events) - 1].event = "error"
        /\ events[Len(events)].agent = "System"
        /\ events[Len(events) - 1].agent = "System"

\* a search raised after the router had answered
C3_Witness ==
    /\ raised = "SearchError"
    /\ CallsOf({"route"}) # {}
    /\ calls[Len(calls)].fn = "search"

\* the request carries no website: None or the empty string
NoWebsite == website = [some |-> FALSE, val |-> <<>>] \/ website = [some |-> TRUE, val |-> <<>>]
IsPrefix(a, b) == Len(a) <= Len(b) /\ \A j \in 1..Len(a) : a[j] = b[j]
Min(a, b) == IF a < b THEN a ELSE b

\* C4: with no website (None or the empty string) router.verify_company is
\* never called and the company context stays unset: route and the specialist
\* synthesize are called with company_context = None and no "Using verified
\* company context" event is emitted.
C4_NoWebsiteNoContext ==
    NoWebsite =>
        /\ CallsOf({"verify_company"}) = {}
        /\ company_context = [some |-> FALSE, val |-> <<>>]
        /\ \A j \in CallsOf({"route"} \cup SynthesizeFns) :
              calls[j].company_context = [some |-> FALSE, val |-> <<>>]
        /\ \A j \in 1..Len(events) :
              events[j].content = <<>> \/ events[j].content[1] # "Using verified company context:"

\* a completed run for a request whose website is the empty string
C4_Witness ==
    /\ website = [some |-> TRUE, val |-> <<>>]
    /\ Finished
    /\ raised = NoException
    /\ CallsOf(SynthesizeFns) # {}

\* the kind of a call and the query it carries
CallSig(c) ==
    IF c.fn \in SynthesizeFns THEN <<"synthesize", <<>>>> ELSE <<c.fn, c.query>>
\* the calls of a run that goes through, in the order the pipeline makes them
ExpectedCalls ==
    (IF NoWebsite THEN <<>> ELSE << <<"verify_company", <<>>>> >>)
    \o << <<"route", <<>>>> >>
    \o [k \in 1..Min(2, Len(result.search_queries)) |-> <<"search", result.search_queries[k]>>]
    \o << <<"synthesize", <<>>>> >>

\* C5: the blocking calls of one request are sequential: at most one is in
\* flight, namely the one started last, and they start in the order
\* verify_company (only with a website), route, the searches in the order of
\* the router's query list, synthesize.
C5_Sequential ==
    /\ Cardinality(inflight) <= 1
    /\ inflight \subseteq {Len(calls)}
    /\ IsPrefix([j \in 1..Len(calls) |-> CallSig(calls[j])], ExpectedCalls)

\* the synthesis is in flight after verification, routing and two searches
C5_Witness ==
    /\ Len(calls) = 5
    /\ inflight = {5}
    /\ calls[1].fn = "verify_company"
    /\ calls[5].fn \in SynthesizeFns

IsSearchCall(c) == c.fn = "search"
IsFoundEvent(e) == e.agent = "Tavily" /\ e.content # <<>> /\ e.content[1] = "Tavily responded"
IsTotalEvent(e) == e.content # <<>> /\ e.content[1] = "Total:"
\* the synthesis has been called
Synthesizing == CallsOf(SynthesizeFns) # {}

\* C6: at most two searches are executed, the first two entries of the
\* router's search_queries in order (none when the list is empty), each with
\* max_results = 3; the list handed to the specialist is the concatenation of
\* their results in query order and the reported total is the sum of the
\* per-search result counts.
C6_TwoSearches ==
    LET searches == SelectSeq(calls, IsSearchCall)
        found == SelectSeq(events, IsFoundEvent)
        totals == SelectSeq(events, IsTotalEvent)
    IN /\ Len(searches) <= 2
       /\ \A k \in 1..Len(searches) :
             /\ k <= Len(result.search_queries)
             /\ searches[k].query = result.search_queries[k]
             /\ searches[k].max_results = 3
       /\ all_search_results = Flatten(search_returns)
       /\ Len(found) = Len(search_returns)
       /\ \A k \in 1..Len(found) : found[k].content[3] = ToString(Len(search_returns[k]))
       /\ Synthesizing =>
             /\ Len(search_returns) = Min(2, Len(result.search_queries))
             /\ \A j \in CallsOf(SynthesizeFns) :
                   calls[j].search_results = Flatten(search_returns)
             /\ Len(totals) = 1
             /\ totals[1].content[2] =
                   ToString(SumSeq([k \in 1..Len(search_returns) |-> Len(search_returns[k])]))

\* three queries planned, two searches made, their results handed over in order
C6_Witness ==
    /\ Len(result.search_queries) = 3
    /\ pc = "synth"
    /\ search_returns = << <<R1>>, <<R2, R1>> >>
    /\ calls[Len(calls)].search_results = <<R1, R2, R1>>

\* no call is made a second time
AtMostOnce ==
    /\ Cardinality(CallsOf({"verify_company"})) <= 1
    /\ Cardinality(CallsOf({"route"})) <= 1
    /\ Cardinality(CallsOf(SynthesizeFns)) <= 1
    /\ \A j, k \in CallsOf({"search"}) : j # k => calls[j].query # calls[k].query

\* C7: nothing is retried or partially recovered: verify_company, route and
\* synthesize are each called at most once and each planned query is searched
\* at most once; the step that catches an exception starts no call and ends
\* the run, and no call is started after it.
C7_NoRetry ==
    [][ /\ AtMostOnce'
        /\ raised # NoException => calls' = calls
        /\ raised' # NoException => (calls' = calls /\ Finished' /\ inflight' = {}) ]_vars

\* the second of two planned searches raised: no synthesis follows
C7_Witness ==
    /\ raised = "SearchError"
    /\ Len(Planned(result)) = 2
    /\ Len(search_returns) = 1
    /\ CallsOf(SynthesizeFns) = {}
    /\ Finished

\* router.route is about to come back with the LLM's answer in response.c
RouteAnswered == pc = "route" /\ response.kind = "route"
\* router.verify_company is about to come back with the answers of its calls
VerifyAnswered == pc = "verify" /\ response.kind = "verify"

ThreeIntents == {"competitor_analysis", "founder_lookup", "business_overview"}
FourIntents == ThreeIntents \cup {"unknown"}

VerifySearched == ~response.s1.raises /\ ~response.s2.raises
\* the LLM of verify_company answered with a JSON object
VerifyJson == ~response.c.raises /\ ~parse_json_response(response.c).raised
\* the confidence the LLM gave says verified
Confident ==
    "confidence" \in response.c.data.has /\ response.c.data.confidence \in {"high", "medium"}
\* verify_company with no search results: unverified, no results, no LLM call
UnverifiedWithoutResults ==
    (VerifySearched /\ response.s1.results = <<>> /\ response.s2.results = <<>>) =>
        /\ raised' = NoException
        /\ verification'.verified = FALSE
        /\ verify_results' = <<>>
        /\ chat_calls' = chat_calls

\* C9 as stated: verify_company returns unverified rather than failing: with no
\* search results it returns verified = False, no results and makes no LLM
\* call; when the LLM's JSON lacks any of target_company, similar_companies or
\* confidence (or confidence is neither "high" nor "medium") it returns
\* verified = False instead of raising.
C9_UnverifiedOnMissing ==
    [][ VerifyAnswered =>
          /\ UnverifiedWithoutResults
          /\ (/\ VerifySearched
              /\ response.s1.results \o response.s2.results # <<>>
              /\ VerifyJson
              /\ (VerifyKeys \ response.c.data.has # {} \/ ~Confident))
             => (raised' = NoException /\ verification'.verified = FALSE) ]_vars

\* C9, amended: with no search results verify_company returns verified =
\* False, no results and makes no LLM call; when the LLM's JSON object lacks
\* any of target_company, similar_companies or confidence it still returns a
\* CompanyVerification instead of raising, and verified is True exactly when
\* confidence is present and is "high" or "medium", whatever else is missing.
C9_TolerantOfMissing ==
    [][ VerifyAnswered =>
          /\ UnverifiedWithoutResults
          /\ (/\ VerifySearched
              /\ response.s1.results \o response.s2.results # <<>>
              /\ VerifyJson)
             => /\ raised' = NoException
                /\ verification'.verified = Confident
                /\ "target_company" \notin response.c.data.has
                      => verification'.company_description = <<>>
                /\ "similar_companies" \notin response.c.data.has
                      => verification'.similar_companies = <<>> ]_vars

\* verified on the LLM's confidence alone: nothing is known of the target
C9_Witness ==
    /\ verification.verified
    /\ verification.company_description = <<>>
    /\ verify_results # <<>>
    /\ company_context = Some(<<>>)

\* the LLM's answer holds no JSON value at all
NoJson == \A j \in 1..Len(response.c.text) : response.c.text[j] # JSONTOK
\* the router LLM's answer is malformed
Malformed ==
    \/ NoJson
    \/ parse_json_response(response.c).raised
    \/ "intent" \notin response.c.data.has
    \/ "reasoning" \notin response.c.data.has
\* the router LLM's answer lacks nothing but the search_queries
OnlyQueriesMissing ==
    /\ ~parse_json_response(response.c).raised
    /\ response.c.data.has = {"intent", "reasoning"}
    /\ response.c.data.intent \in FourIntents

\* C10: malformed LLM output propagates as a failure: if the router LLM
\* response is not parseable JSON or lacks the "intent" or "reasoning" key,
\* route raises and run_pipeline takes the error ending with no search
\* executed and no synthesize call; only a missing "search_queries" key is
\* defaulted, to the single query "<company_name> <user_query>".
C10_MalformedPropagates ==
    [][ (RouteAnswered /\ ~response.c.raises) =>
          /\ Malformed =>
                /\ raised' # NoException
                /\ result' = NoRouterResult
                /\ Finished'
                /\ events'[Len(events')].event = "error"
                /\ \A j \in 1..Len(calls') : calls'[j].fn \notin {"search"} \cup SynthesizeFns
          /\ OnlyQueriesMissing =>
                /\ raised' = NoException
                /\ result'.search_queries = << <<"Acme", "who", "founded", "it">> >> ]_vars

\* route raised KeyError on a JSON object without "intent" or "reasoning"
C10_Witness ==
    /\ raised = "KeyError"
    /\ Finished
    /\ calls[Len(calls)].fn = "route"
    /\ CallsOf({"search"} \cup SynthesizeFns) = {}

\* the agent name and the function the claim gives for an intent
SelectedName(intent) ==
    IF intent = "competitor_analysis" THEN "Competitor Agent"
    ELSE IF intent = "founder_lookup" THEN "Founder Agent"
    ELSE "Business Agent"
SelectedFn(intent) ==
    IF intent = "competitor_analysis" THEN "competitor.synthesize"
    ELSE IF intent = "founder_lookup" THEN "founder.synthesize"
    ELSE "business.synthesize"
IsActivationEvent(e) == Len(e.content) = 2 /\ e.content[2] = "activated!"

\* C11: dispatch is a function of the routed intent alone: COMPETITOR selects
\* competitor.synthesize under "Competitor Agent", FOUNDER founder.synthesize
\* under "Founder Agent", BUSINESS and any other intent business.synthesize
\* under "Business Agent"; the selected function is the one called for the
\* synthesis, and the activation, total-results and final_answer events carry
\* the selected agent's name.
C11_DispatchByIntent ==
    result.intent # "" =>
        /\ agent_name = SelectedName(result.intent)
        /\ synthesize_fn = SelectedFn(result.intent)
        /\ \A j \in CallsOf(SynthesizeFns) : calls[j].fn = SelectedFn(result.intent)
        /\ \E j \in 1..Len(events) : IsActivationEvent(events[j])
        /\ \A j \in 1..Len(events) :
              (\/ IsActivationEvent(events[j])
               \/ IsTotalEvent(events[j])
               \/ events[j].event = "final_answer")
              => events[j].agent = SelectedName(result.intent)

\* a founder question answered by the Founder Agent
C11_Witness ==
    /\ result.intent = "founder_lookup"
    /\ Finished
    /\ raised = NoException
    /\ calls[Len(calls)].fn = "founder.synthesize"
    /\ events[Len(events) - 1].agent = "Founder Agent"

\* synthesize_fn is about to come back with the LLM's answer in response.c
SynthAnswered == pc = "synth" /\ response.kind = "synth"

\* where the "final_answer" and "done" events stand in the stream, and what
\* has come back before a "final_answer"
FinalAnswerPlace ==
    /\ CountKind("final_answer") <= 1
    /\ \A j \in 1..Len(events) :
          events[j].event = "final_answer" =>
             /\ j = Len(events) - 1
             /\ events[j + 1].event = "done"
             /\ events[j + 1].agent = "System"
    /\ \A j \in 1..Len(events) : events[j].event = "done" => j = Len(events)
    /\ CountKind("final_answer") = 1 =>
          /\ Cardinality(CallsOf({"route"})) = 1
          /\ Cardinality(CallsOf({"search"})) = Min(2, Len(result.search_queries))
          /\ Len(search_returns) = Min(2, Len(result.search_queries))
          /\ Cardinality(CallsOf(SynthesizeFns)) = 1
          /\ inflight = {}
          /\ raised = NoException

\* C12: a "final_answer" event is emitted at most once, only after route, all
\* planned searches and the synthesize call have returned; its content is
\* exactly the value synthesize returned, the very next event is the "done"
\* event, and no event is emitted after "done".
C12_FinalAnswerOnce ==
    [][ /\ FinalAnswerPlace'
        /\ CountKind("final_answer") = 0 /\ CountKind("final_answer")' = 1 =>
              /\ SynthAnswered
              /\ ~response.c.raises
              /\ events' = events
                    \o << [agent |-> agent_name, event |-> "final_answer",
                           content |-> response.c.text],
                          [agent |-> "System", event |-> "done",
                           content |-> <<"Analysis complete!">>] >>
        /\ (SynthAnswered /\ ~response.c.raises) => CountKind("final_answer")' = 1
        /\ CountKind("done") > 0 => events' = events ]_vars

\* the answer of the LLM is the last event but one, after two searches
C12_Witness ==
    /\ Finished
    /\ Len(search_returns) = 2
    /\ Len(events) >= 2
    /\ events[Len(events) - 1].event = "final_answer"
    /\ events[Len(events) - 1].content = <<"Acme", "was", "founded", "by", "Wile">>
    /\ events[Len(events)].event = "done"

\* the context every route and synthesize call was given is the context of
\* the run, and so is the one the RouterResult carries
SameContext ==
    /\ \A j \in CallsOf({"route"} \cup SynthesizeFns) :
          calls[j].company_context = company_context
    /\ result.intent # "" => result.company_context = company_context

\* the context the claim gives for a CompanyVerification
ContextOf(v) ==
    IF v.verified \/ v.company_description # <<>>
    THEN [some |-> TRUE, val |-> v.company_description]
    ELSE [some |-> FALSE, val |-> <<>>]

\* C13: company context is set at most once, only from the verification
\* result, and then used unchanged: it is the verification's
\* company_description if verified, and if not verified that description
\* exactly when it is non-empty (so the "Could not verify <name>" placeholder
\* of the no-results case becomes the context) and unset otherwise; route and
\* the specialist synthesize call are passed the same context.
C13_ContextFromVerification ==
    [][ /\ company_context' # company_context =>
              (VerifyAnswered /\ company_context = [some |-> FALSE, val |-> <<>>])
        /\ (VerifyAnswered /\ raised' = NoException) =>
              company_context' = ContextOf(verification')
        /\ (/\ VerifyAnswered
            /\ VerifySearched
            /\ response.s1.results = <<>>
            /\ response.s2.results = <<>>)
           => company_context' = [some |-> TRUE, val |-> <<"Could", "not", "verify", "Acme">>]
        /\ SameContext' ]_vars

\* the placeholder of the no-results case is handed to the specialist
C13_Witness ==
    /\ pc = "synth"
    /\ ~verification.verified
    /\ company_context = [some |-> TRUE, val |-> <<"Could", "not", "verify", "Acme">>]
    /\ calls[2].fn = "route"
    /\ calls[2].company_context = company_context
    /\ calls[Len(calls)].company_context = company_context

====
